---- MODULE Spec2Model ----
(***************************************************************************)
(* Model of the OpenOligo pinout registry (openoligo/hal/board.py).        *)
(*                                                                         *)
(* A str is a sequence of one-character strings, so that str.lower() is    *)
(* computed character by character.  A dict is a sequence of               *)
(* [name, dev] entries with pairwise different names, in insertion order   *)
(* (Python dicts keep insertion order; assigning to an existing key keeps  *)
(* the key's position).  A device is [kind, gpio_pin].                     *)
(***************************************************************************)
EXTENDS Naturals, Sequences, FiniteSets, TLC

VARIABLES
    phosphoramidites,   \* the caller's dict, stored as self.phosphoramidites
    reactants,          \* the caller's dict, stored as self.reactants
    pinout,             \* self.__pinout of the object built last
    instances,          \* Singleton: "None", or "Pinout" once an instance is kept
    ret                 \* outcome of the last call: a return value or an exception

vars == <<phosphoramidites, reactants, pinout, instances, ret>>

\* Largest number of entries the caller supplies across both dicts.
MaxK == 2

------------------------------------------------------------------------------
(* Strings *)

UpperCase == <<"A","B","C","D","E","F","G","H","I","J","K","L","M",
               "N","O","P","Q","R","S","T","U","V","W","X","Y","Z">>

LowerCase == <<"a","b","c","d","e","f","g","h","i","j","k","l","m",
               "n","o","p","q","r","s","t","u","v","w","x","y","z">>

\* The lower-case form of each upper-case letter
ToLower ==
    [c \in {UpperCase[i] : i \in 1..Len(UpperCase)} |->
        LowerCase[CHOOSE i \in 1..Len(UpperCase) : UpperCase[i] = c]]

LowerChar(c) == IF c \in DOMAIN ToLower THEN ToLower[c] ELSE c

\* str.lower()
Lower(s) == [i \in 1..Len(s) |-> LowerChar(s[i])]

------------------------------------------------------------------------------
(* Devices and the board *)

Valve(p) == [kind |-> "Valve", gpio_pin |-> p]

Switch(p) == [kind |-> "Switch", gpio_pin |-> p]

\* Two devices are equal when they wrap the same pin, whatever their variant.
DeviceEq(a, b) == a.gpio_pin = b.gpio_pin

\* isinstance(v, Valve)
IsValve(v) == v.kind = "Valve"

\* The pins of the I/O header, in enumeration order.
Board == <<"P3","P5","P7","P8","P10","P11","P12","P13","P15","P16","P18","P19",
           "P21","P22","P23","P24","P26","P29","P31","P32","P33","P35","P36",
           "P37","P38","P40">>

Entry(n, d) == [name |-> n, dev |-> d]

fixed == <<
    Entry(<<"w","a","s","t","e">>, Valve("P7")),
    Entry(<<"w","a","s","t","e","_","r","x","n">>, Valve("P5")),
    Entry(<<"p","r","o","d">>, Valve("P8")),
    Entry(<<"b","r","a","n","c","h">>, Valve("P12")),
    Entry(<<"r","x","n","_","o","u","t">>, Valve("P13")),
    Entry(<<"s","o","l">>, Valve("P3")),
    Entry(<<"g","a","s">>, Valve("P10")),
    Entry(<<"p","u","m","p">>, Switch("P11")) >>

------------------------------------------------------------------------------
(* dict operations *)

Range(s) == {s[i] : i \in 1..Len(s)}

\* list(d)
Keys(d) == [i \in 1..Len(d) |-> d[i].name]

\* k in d
HasKey(d, k) == \E i \in 1..Len(d) : d[i].name = k

\* d[k], for a key of d
Lookup(d, k) == d[CHOOSE i \in 1..Len(d) : d[i].name = k].dev

\* d[k] = v
DictSet(d, k, v) ==
    IF HasKey(d, k)
    THEN [i \in 1..Len(d) |-> IF d[i].name = k THEN Entry(k, v) ELSE d[i]]
    ELSE Append(d, Entry(k, v))

------------------------------------------------------------------------------
(* Pinout *)

NoError == [kind |-> "none"]

ValueError(pin, category, sub_category) ==
    [kind |-> "raise", type |-> "ValueError", pin |-> pin,
     category |-> category, sub_category |-> sub_category]

\* pin in self.__pinout.values()
InValues(table, pin) == \E j \in 1..Len(table) : DeviceEq(table[j].dev, pin)

\* __add_pinout_safe without the duplicate check
AddPinoutSafe_NoCheck(table, pin, category, sub_category) ==
    [table |-> DictSet(table, Lower(sub_category), pin), err |-> NoError]

\* Pinout.__add_pinout_safe: the table afterwards and the exception raised, if any
AddPinoutSafe(table, pin, category, sub_category) ==
    IF InValues(table, pin)
    THEN [table |-> table, err |-> ValueError(pin, category, sub_category)]
    ELSE [table |-> DictSet(table, Lower(sub_category), pin), err |-> NoError]

Tagged(key, d) ==
    [i \in 1..Len(d) |-> [category |-> key, name |-> d[i].name, dev |-> d[i].dev]]

\* The (key, category, pin) triples init_pinout walks: the attributes of self
\* whose name has no leading underscore, in the order __init__ sets them, each
\* dict in its own order.  All three are dicts (Dict[str, Valve] by signature),
\* so the branch for an attribute that is no dict is never taken.
Items(phos, reac) ==
    Tagged("fixed", fixed) \o Tagged("phosphoramidites", phos)
        \o Tagged("reactants", reac)

RECURSIVE InitPinoutSkipping(_, _, _)
InitPinoutSkipping(table, items, i) ==
    IF i > Len(items)
    THEN [table |-> table, err |-> NoError]
    ELSE LET r == AddPinoutSafe(table, items[i].dev, items[i].category, items[i].name)
         IN  InitPinoutSkipping(r.table, items, i + 1)

\* init_pinout swallowing the exception of a duplicate and walking on
InitPinout_SkipDuplicates(table, items) == InitPinoutSkipping(table, items, 1)

RECURSIVE InitPinoutFrom(_, _, _)
InitPinoutFrom(table, items, i) ==
    IF i > Len(items)
    THEN [table |-> table, err |-> NoError]
    ELSE LET r == AddPinoutSafe(table, items[i].dev, items[i].category, items[i].name)
         IN  IF r.err.kind = "raise"
             THEN r
             ELSE InitPinoutFrom(r.table, items, i + 1)

\* Pinout.init_pinout on a table: the walk stops at the first exception.
InitPinout(table, items) == InitPinoutFrom(table, items, 1)

\* get looking the name up as given
GetResult_NoLower(table, name) ==
    IF HasKey(table, name)
    THEN [op |-> "get", kind |-> "return", name |-> name,
          value |-> Lookup(table, name)]
    ELSE [op |-> "get", kind |-> "raise", type |-> "NoSuchPinInPinout",
          name |-> name, available |-> Keys(table)]

\* get listing the names of the fixed map in its message
GetResult_FixedNames(table, name) ==
    IF HasKey(table, Lower(name))
    THEN [op |-> "get", kind |-> "return", name |-> name,
          value |-> Lookup(table, Lower(name))]
    ELSE [op |-> "get", kind |-> "raise", type |-> "NoSuchPinInPinout",
          name |-> name, available |-> Keys(fixed)]

\* Pinout.get
GetResult(table, name) ==
    IF HasKey(table, Lower(name))
    THEN [op |-> "get", kind |-> "return", name |-> name,
          value |-> Lookup(table, Lower(name))]
    ELSE [op |-> "get", kind |-> "raise", type |-> "NoSuchPinInPinout",
          name |-> name, available |-> Keys(table)]

\* Pinout.valves
ValvesOf(table) == SelectSeq(table, LAMBDA e : IsValve(e.dev))

\* list_configurable_pins excluding the pins of the table instead of the fixed map
ListConfigurablePins_Unclaimed ==
    LET claimed == [i \in 1..Len(pinout) |-> pinout[i].dev.gpio_pin]
    IN  SelectSeq(Board, LAMBDA pin : pin \notin Range(claimed))

\* list_configurable_pins
ListConfigurablePins ==
    LET fixed_pins == [i \in 1..Len(fixed) |-> fixed[i].dev.gpio_pin]
    IN  SelectSeq(Board, LAMBDA pin : pin \notin Range(fixed_pins))

------------------------------------------------------------------------------
(* Inputs *)

CallerNames ==
    { <<"W","a","s","t","e">>, <<"p","u","m","p">>, <<"a">>, <<"A">>, <<"b">> }

CallerPins == { "P7", "P11", "P15", "P16" }

CallerEntries == { Entry(n, Valve(p)) : n \in CallerNames, p \in CallerPins }

\* The dicts of k entries, for each k: the keys of a dict are pairwise different.
Dicts ==
    [k \in 0..MaxK |->
        { d \in [1..k -> CallerEntries] :
            \A i, j \in 1..k : d[i].name = d[j].name => i = j }]

QueryNames ==
    { <<"w","a","s","t","e">>, <<"W","a","s","t","e">>, <<"W","A","S","T","E">>,
      <<"p","u","m","p">>, <<"P","u","m","p">>, <<"a">>, <<"A">>, <<"x">> }

------------------------------------------------------------------------------
(* Behaviour *)

Init ==
    /\ \E k \in 0..MaxK : phosphoramidites \in Dicts[k]
    /\ \E k \in 0..(MaxK - Len(phosphoramidites)) : reactants \in Dicts[k]
    /\ pinout = << >>
    /\ instances = "None"
    /\ ret = [op |-> "start", kind |-> "none"]

\* Pinout(phosphoramidites, reactants) with no instance kept: __init__ runs, and
\* the instance is kept only when __init__ returns.
ConstructNew ==
    /\ instances = "None"
    /\ LET r == InitPinout(<< >>, Items(phosphoramidites, reactants))
       IN  /\ pinout' = r.table
           /\ IF r.err.kind = "raise"
              THEN /\ instances' = "None"
                   /\ ret' = [op |-> "Pinout"] @@ r.err
              ELSE /\ instances' = "Pinout"
                   /\ ret' = [op |-> "Pinout", kind |-> "return"]
    /\ UNCHANGED <<phosphoramidites, reactants>>

\* Pinout(...) with an instance kept: the kept instance is returned as it is.
ConstructExisting ==
    /\ instances = "Pinout"
    /\ ret' = [op |-> "Pinout", kind |-> "return"]
    /\ UNCHANGED <<phosphoramidites, reactants, pinout, instances>>

\* A second call of init_pinout on the instance: __pinout is not cleared first.
CallInitPinout ==
    /\ instances = "Pinout"
    /\ LET r == InitPinout(pinout, Items(phosphoramidites, reactants))
       IN  /\ pinout' = r.table
           /\ ret' = IF r.err.kind = "raise"
                     THEN [op |-> "init_pinout"] @@ r.err
                     ELSE [op |-> "init_pinout", kind |-> "return"]
    /\ UNCHANGED <<phosphoramidites, reactants, instances>>

CallGet ==
    /\ instances = "Pinout"
    /\ \E name \in QueryNames : ret' = GetResult(pinout, name)
    /\ UNCHANGED <<phosphoramidites, reactants, pinout, instances>>

CallPins ==
    /\ instances = "Pinout"
    /\ ret' = [op |-> "pins", kind |-> "return", value |-> pinout]
    /\ UNCHANGED <<phosphoramidites, reactants, pinout, instances>>

CallValves ==
    /\ instances = "Pinout"
    /\ ret' = [op |-> "valves", kind |-> "return", value |-> ValvesOf(pinout)]
    /\ UNCHANGED <<phosphoramidites, reactants, pinout, instances>>

CallListConfigurablePins ==
    /\ ret' = [op |-> "list_configurable_pins", kind |-> "return",
               value |-> ListConfigurablePins]
    /\ UNCHANGED <<phosphoramidites, reactants, pinout, instances>>

Next ==
    \/ ConstructNew
    \/ ConstructExisting
    \/ CallInitPinout
    \/ CallGet
    \/ CallPins
    \/ CallValves
    \/ CallListConfigurablePins

Spec == Init /\ [][Next]_vars

------------------------------------------------------------------------------
(* Properties *)

FixedPins == { fixed[i].dev.gpio_pin : i \in 1..Len(fixed) }

Configurable == phosphoramidites \o reactants

AllItems == Items(phosphoramidites, reactants)

PinsUnique(table) ==
    \A i, j \in 1..Len(table) :
        table[i].dev.gpio_pin = table[j].dev.gpio_pin => i = j

\* C1: in a constructed registry, and in what pins() returns, no two entries
\* carry the same physical pin.
C1_UniquePins ==
    /\ instances = "Pinout" => PinsUnique(pinout)
    /\ ret.op = "pins" => PinsUnique(ret.value)

C1_Witness ==
    /\ instances = "Pinout"
    /\ ret.op = "pins"
    /\ Len(ret.value) = Len(fixed) + 2

\* C2: a construction in which a configurable valve is bound to the pin of a
\* fixed device fails with a duplicate-pin error that names the pin, the
\* offending name and the name that first claimed the pin.
C2_DuplicateNamesBoth ==
    (/\ ret.op = "Pinout"
     /\ \E i \in 1..Len(Configurable) : Configurable[i].dev.gpio_pin \in FixedPins)
    => /\ ret.kind = "raise"
       /\ ret.type = "ValueError"
       /\ \E i \in 1..Len(Configurable) :
            /\ Configurable[i].name = ret.sub_category
            /\ Configurable[i].dev = ret.pin
       /\ \E j \in 1..Len(pinout) :
            /\ DeviceEq(pinout[j].dev, ret.pin)
            /\ pinout[j].name = ret.sub_category

\* C3: in a constructed registry, get of each fixed name returns the device of
\* the fixed map.
C3_FixedNotOverridable ==
    instances = "Pinout" =>
        \A i \in 1..Len(fixed) :
            /\ GetResult(pinout, fixed[i].name).kind = "return"
            /\ GetResult(pinout, fixed[i].name).value = fixed[i].dev

\* C4: every key of a constructed table is lower-case, and get of any
\* letter-case variant of a registered name returns that name's device.
C4_CaseInsensitive ==
    instances = "Pinout" =>
        /\ \A i \in 1..Len(pinout) : pinout[i].name = Lower(pinout[i].name)
        /\ \A i \in 1..Len(pinout) : \A q \in QueryNames :
              Lower(q) = pinout[i].name =>
                  /\ GetResult(pinout, q).kind = "return"
                  /\ GetResult(pinout, q).value = pinout[i].dev
        /\ (ret.op = "get" /\ HasKey(pinout, Lower(ret.name))) =>
              /\ ret.kind = "return"
              /\ ret.value = Lookup(pinout, Lower(ret.name))

C4_Witness ==
    /\ ret.op = "get"
    /\ ret.kind = "return"
    /\ ret.name = <<"W","A","S","T","E">>
    /\ ret.value = Valve("P7")

NumFixedValves == Len(ValvesOf(fixed))

\* C6: valves() is a strict subset of pins() without any Switch, and has as
\* many entries as the fixed map has valves plus the configurable entries
\* supplied.
C6_ValvesCount ==
    ret.op = "valves" =>
        /\ Range(ret.value) \subseteq Range(pinout)
        /\ Range(ret.value) # Range(pinout)
        /\ \A i \in 1..Len(ret.value) : ret.value[i].dev.kind # "Switch"
        /\ Len(ret.value) = NumFixedValves + Len(Configurable)

\* C7: list_configurable_pins() returns each board pin no fixed device uses,
\* once, and no other pin, whenever it is called.
C7_ConfigurablePins ==
    ret.op = "list_configurable_pins" =>
        /\ Range(ret.value) = Range(Board) \ FixedPins
        /\ Cardinality(Range(ret.value)) = Len(ret.value)

C7_Witness ==
    /\ ret.op = "list_configurable_pins"
    /\ instances = "Pinout"
    /\ \E i \in 1..Len(pinout) : pinout[i].dev.gpio_pin \notin FixedPins

LowerNames(items, n) == { Lower(items[j].name) : j \in 1..n }

\* C8: a construction that raises keeps no instance and stopped at the pair it
\* names, with nothing walked after it in the table; a kept instance holds an
\* entry for every pair walked; a kept instance is never dropped.
C8_Lifecycle ==
    /\ [](/\ (ret.op = "Pinout" /\ ret.kind = "raise") =>
                /\ instances = "None"
                /\ \E i \in 1..Len(AllItems) :
                     /\ AllItems[i].name = ret.sub_category
                     /\ AllItems[i].category = ret.category
                     /\ AllItems[i].dev = ret.pin
                     /\ Range(Keys(pinout)) = LowerNames(AllItems, i - 1)
          /\ instances = "Pinout" =>
                Range(Keys(pinout)) = LowerNames(AllItems, Len(AllItems)))
    /\ [][instances = "Pinout" => instances' = "Pinout"]_vars

C8_Witness ==
    /\ ret.op = "Pinout"
    /\ ret.kind = "raise"
    /\ instances = "None"
    /\ Len(pinout) > Len(fixed)

\* C9: once an instance is kept, no call changes the table.
C9_ReadOnly == [][instances = "Pinout" => pinout' = pinout]_vars

\* C10: a construction raises exactly when two of the pairs walked carry the
\* same pin.
C10_DuplicateIsSetProperty ==
    ret.op = "Pinout" =>
        (ret.kind = "raise" <=>
            \E i, j \in 1..Len(AllItems) :
                i # j /\ AllItems[i].dev.gpio_pin = AllItems[j].dev.gpio_pin)

====
